---------------------------- MODULE Spec2Model ----------------------------
(***************************************************************************)
(* Model of quiche's packet pacer (src/quiche/src/recovery/pacer.rs).      *)
(*                                                                         *)
(* Time is counted in nanoseconds, the resolution of std::time::Instant    *)
(* and std::time::Duration.  An Instant is the number of nanoseconds since *)
(* an arbitrary origin; `clock` is the reading Instant::now() would give.  *)
(* The `now` argument of send is an Instant chosen by the caller and is    *)
(* not tied to `clock` by anything in the code (the repository's own tests *)
(* pass instants 200ms ahead of the clock).                                *)
(*                                                                         *)
(* Rates are in bytes per second as in the code.  They are taken at the    *)
(* GB/s scale so that capacity/rate is a handful of nanoseconds.           *)
(***************************************************************************)
EXTENDS Integers, FiniteSets, Sequences, TLC

VARIABLES
    capacity,     \* Pacer.capacity: bucket capacity (bytes)
    used,         \* Pacer.used: bucket used (bytes)
    rate,         \* Pacer.rate: pacing rate (bytes/sec)
    last_update,  \* Pacer.last_update (Instant, ns)
    next_time,    \* Pacer.next_time (Instant, ns)
    clock,        \* the monotonic system clock read by Instant::now()
    last,         \* history: the most recent call on the pacer and its arguments
    latest,       \* history: the `now` of the latest send of a caller whose
                  \*          `now` values never go back (MonoSend, PacedSend)
    sent          \* history: bytes reported by a paced caller, per `now` value

vars == <<capacity, used, rate, last_update, next_time, clock, last, latest, sent>>

----------------------------------------------------------------------------
(* Bounds of the model.                                                    *)

MaxTime == 3        \* clock readings and `now` arguments range over 0..MaxTime
MaxCapacity == 3    \* capacities range over 0..MaxCapacity
MaxBytes == 3       \* sent_bytes ranges over 0..MaxBytes
MaxUsed == 4        \* a send is not issued if it would leave used above this
PacedHorizon == 8   \* a paced caller is followed over 0..PacedHorizon

NANOS_PER_SEC == 1000000000

\* f64::MANTISSA_DIGITS
F64_MANTISSA_DIGITS == 53

Times == 0..MaxTime
PacedTimes == 0..PacedHorizon
Capacities == 0..MaxCapacity
ByteCounts == 0..MaxBytes
\* 0 disables pacing; 1e9 B/s makes capacity/rate a whole number of ns;
\* 2.1e9 B/s makes it a fraction that from_secs_f64 has to round
\* (1/2.1 -> 0ns, 2/2.1 -> 1ns, 3/2.1 -> 1ns, 4/2.1 -> 2ns); 2e9 B/s puts odd
\* capacities on a half nanosecond, where the result hangs on the rounding
\* error of the f64 division (1/2 -> 1ns, 3/2 -> 1ns).
Rates == {0, 1000000000, 2000000000, 2100000000}

----------------------------------------------------------------------------
(* Arithmetic helpers.                                                     *)

Max(a, b) == IF a >= b THEN a ELSE b

RECURSIVE GCD(_, _)
GCD(a, b) == IF b = 0 THEN a ELSE GCD(b, a % b)

\* The number of binary digits of n >= 1.
RECURSIVE BitLen(_)
BitLen(n) == IF n <= 1 THEN 1 ELSE 1 + BitLen(n \div 2)

\* The long division c/r carried on from remainder rem (0 <= rem < r), one
\* binary digit of the quotient per step, until the significand of an f64 is
\* full (`left` digits to go, counted from the first 1 once `started`); then
\* the sign of the rounding error of the f64 quotient: 1 if the division
\* rounded up, -1 if it rounded down, 0 if the quotient is exact.  The division
\* rounds to nearest, ties to the even significand (`lastbit`).  2 * rem is
\* compared with r as rem with r - rem.
RECURSIVE f64_div_rounding(_, _, _, _, _)
f64_div_rounding(rem, r, left, started, lastbit) ==
    IF rem = 0 THEN 0
    ELSE IF left = 0
    THEN IF rem > r - rem THEN 1
         ELSE IF rem < r - rem THEN -1
         ELSE IF lastbit = 1 THEN 1 ELSE -1
    ELSE LET bit  == IF rem >= r - rem THEN 1 ELSE 0
             rem2 == IF bit = 1 THEN rem - (r - rem) ELSE rem + rem
             on   == started \/ bit = 1
         IN  f64_div_rounding(rem2, r, IF on THEN left - 1 ELSE left, on, bit)

\* The sign of (c as f64 / r as f64) - c/r, for r > 0.
f64_div_error(c, r) ==
    LET whole == c \div r
    IN  IF whole >= 1
        THEN f64_div_rounding(c % r, r, F64_MANTISSA_DIGITS - BitLen(whole),
                              TRUE, whole % 2)
        ELSE f64_div_rounding(c, r, F64_MANTISSA_DIGITS, FALSE, 0)

\* Duration::from_secs_f64(capacity as f64 / rate as f64), in ns, for rate > 0.
\* from_secs_f64 rounds the exact value of its f64 argument to the nearest
\* nanosecond, ties to the even one.  The argument is the f64 quotient, within
\* 2^-53 of capacity/rate: that error cannot carry a value across a half
\* nanosecond, but when capacity/rate is exactly a half nanosecond the quotient
\* lies above or below it and the division's rounding decides.  The fraction
\* NANOS_PER_SEC/rate is reduced first so that the product stays small.
duration_of_quotient(cap, r) ==
    LET g   == GCD(NANOS_PER_SEC, r)
        num == cap * (NANOS_PER_SEC \div g)
        den == r \div g
        q   == num \div den
        rem == num % den
        err == f64_div_error(cap, r)
    IN  IF rem < den - rem THEN q
        ELSE IF rem > den - rem THEN q + 1
        ELSE IF err > 0 THEN q + 1
        ELSE IF err < 0 THEN q
        ELSE IF q % 2 = 0 THEN q ELSE q + 1

\* The intervals of the configurations explored, computed once.
Intervals ==
    [cap \in Capacities |-> [r \in Rates \ {0} |-> duration_of_quotient(cap, r)]]

\* "let interval = Duration::from_secs_f64(capacity as f64 / rate as f64)"
from_secs_f64(cap, r) ==
    IF cap \in Capacities /\ r \in Rates \ {0}
    THEN Intervals[cap][r]
    ELSE duration_of_quotient(cap, r)

\* A distance between the two instants that does not saturate at zero.
absolute_duration_between(now, earlier) ==
    IF now >= earlier THEN now - earlier ELSE earlier - now

\* Instant::saturating_duration_since: now - earlier, or zero if now is earlier.
saturating_duration_since(now, earlier) ==
    IF now >= earlier THEN now - earlier ELSE 0

----------------------------------------------------------------------------
(* The pacer's operations as functions on the record of its fields.        *)

Pacer(c, u, r, lu, nt) ==
    [capacity |-> c, used |-> u, rate |-> r, last_update |-> lu, next_time |-> nt]

Self == Pacer(capacity, used, rate, last_update, next_time)

\* Pacer::new: the two timestamps are two readings of the clock, t1 <= t2.
new(c, r, t1, t2) == Pacer(c, 0, r, t1, t2)

\* reset that moves last_update to the clock reading and leaves next_time.
reset_leaves_next_time(p, clk) == [p EXCEPT !.used = 0, !.last_update = clk]

\* reset that overwrites next_time with the clock reading.
reset_overwrites_next_time(p, clk) ==
    [p EXCEPT !.used = 0, !.last_update = clk, !.next_time = clk]

\* reset that forgets to empty the bucket.
reset_keeps_used(p, clk) ==
    [p EXCEPT !.last_update = clk, !.next_time = Max(p.next_time, clk)]

\* Pacer::reset, with clk the reading of Instant::now() inside it.
reset(p, clk) ==
    [p EXCEPT !.used = 0,
              !.last_update = clk,
              !.next_time = Max(p.next_time, clk)]

\* update that stores the new configuration without resetting.
update_without_reset(p, c, r, clk) == [p EXCEPT !.capacity = c, !.rate = r]

\* Pacer::update
update(p, c, r, clk) == reset([p EXCEPT !.capacity = c, !.rate = r], clk)

\* A fast-path guard that tests the rate only.
Degenerate_rate_only(p, sent_bytes) == p.rate = 0

\* The guard of the fast path of send.
Degenerate(p, sent_bytes) == p.rate = 0 \/ sent_bytes = 0

\* A fast path that does not clamp to now.
send_degenerate_unclamped(p, now) ==
    [p EXCEPT !.next_time = p.last_update]

\* The fast path of send.
send_degenerate(p, now) ==
    [p EXCEPT !.next_time = Max(p.last_update, now),
              !.last_update = Max(p.last_update, now)]

\* A staleness test that already fires when exactly one interval has elapsed.
TooOld_inclusive(elapsed, interval) == elapsed >= interval

\* "if too old, reset it"
TooOld(elapsed, interval) == elapsed > interval

\* A rollover test that lets the bucket reach capacity without rolling over.
BucketFull_strict(u, c) == u > c

\* The rollover test on the bucket.
BucketFull(u, c) == u >= c

\* A last statement without the clamp to now.
final_next_time_unclamped(lu, next, now) == lu + next

\* The last statement of send.
final_next_time(lu, next, now) == Max(lu + next, now)

\* Whether send(sent_bytes, now) on p runs the stale reset.
Stale(p, sent_bytes, now) ==
    /\ ~Degenerate(p, sent_bytes)
    /\ TooOld(saturating_duration_since(now, p.last_update),
              from_secs_f64(p.capacity, p.rate))

\* Whether send(sent_bytes, now) on p rolls the bucket over.
Rolls(p, sent_bytes, now) ==
    /\ ~Degenerate(p, sent_bytes)
    /\ BucketFull((IF Stale(p, sent_bytes, now) THEN 0 ELSE p.used) + sent_bytes,
                  p.capacity)

\* A rollover that does not restart the window at now.
rollover_keeps_last_update(p, now) == [p EXCEPT !.used = @ - p.capacity]

\* A rollover that empties the bucket instead of carrying the remainder.
rollover_zeroes_used(p, now) == [p EXCEPT !.used = 0, !.last_update = now]

\* The rollover branch: "self.used -= self.capacity; self.last_update = now;"
rollover(p, now) == [p EXCEPT !.used = @ - p.capacity, !.last_update = now]

\* The pacing path of send (rate > 0 and sent_bytes > 0).
send_paced(p, sent_bytes, now, clk) ==
    LET interval == from_secs_f64(p.capacity, p.rate)
        elapsed  == saturating_duration_since(now, p.last_update)
        p1 == IF TooOld(elapsed, interval) THEN reset(p, clk) ELSE p
        p2 == [p1 EXCEPT !.used = @ + sent_bytes]
        full == BucketFull(p2.used, p2.capacity)
        p3 == IF full THEN rollover(p2, now) ELSE p2
        next == IF full THEN interval ELSE 0
    IN  [p3 EXCEPT !.next_time = final_next_time(p3.last_update, next, now)]

\* Pacer::send
send(p, sent_bytes, now, clk) ==
    IF Degenerate(p, sent_bytes)
    THEN send_degenerate(p, now)
    ELSE send_paced(p, sent_bytes, now, clk)

----------------------------------------------------------------------------
(* The state machine: one pacer, its owner calling it, the clock running.  *)

\* The record kept of the most recent call:
\*   op, sent_bytes, now, capacity, rate   the operation and its arguments
\*                                         (0 for those it does not take; for
\*                                         new, reset and update `now` is the
\*                                         clock reading the call took)
\*   stale     a send that ran the stale reset
\*   rolled    a send that rolled the bucket over
\*   timely    a send whose now was not earlier than next_time before the call
\*   prev_op, prev_rolled   the call made just before this one
\*   seq       alternates from call to call, so that every call is a step
Call(op, b, now, c, r, flags) ==
    [op |-> op, sent_bytes |-> b, now |-> now, capacity |-> c, rate |-> r,
     stale |-> flags.stale, rolled |-> flags.rolled, timely |-> flags.timely,
     prev_op |-> last.op, prev_rolled |-> last.rolled, seq |-> 1 - last.seq]

NoFlags == [stale |-> FALSE, rolled |-> FALSE, timely |-> FALSE]

SendFlags(p, sent_bytes, now) ==
    [stale  |-> Stale(p, sent_bytes, now),
     rolled |-> Rolls(p, sent_bytes, now),
     timely |-> now >= p.next_time]

NoSent == [t \in PacedTimes |-> 0]

Store(p) ==
    /\ capacity' = p.capacity
    /\ used' = p.used
    /\ rate' = p.rate
    /\ last_update' = p.last_update
    /\ next_time' = p.next_time

\* Pacer::new(c, r); the clock may advance between its two readings.
Init ==
    \E c \in Capacities, r \in Rates, t1 \in 0..1, t2 \in 0..1 :
        /\ t1 <= t2
        /\ capacity = new(c, r, t1, t2).capacity
        /\ used = new(c, r, t1, t2).used
        /\ rate = new(c, r, t1, t2).rate
        /\ last_update = new(c, r, t1, t2).last_update
        /\ next_time = new(c, r, t1, t2).next_time
        /\ clock = t2
        /\ last = [op |-> "new", sent_bytes |-> 0, now |-> t2, capacity |-> c,
                   rate |-> r, stale |-> FALSE, rolled |-> FALSE,
                   timely |-> FALSE,
                   prev_op |-> "none", prev_rolled |-> FALSE, seq |-> 0]
        /\ latest = t2
        /\ sent = NoSent

\* The clock advances between calls.
Tick ==
    /\ clock < MaxTime
    /\ clock' = clock + 1
    /\ UNCHANGED <<capacity, used, rate, last_update, next_time, last, latest, sent>>

\* The call send(sent_bytes, now).
SendCall(sent_bytes, now) ==
    LET p == send(Self, sent_bytes, now, clock)
    IN  /\ p.used <= MaxUsed
        /\ Store(p)
        /\ last' = Call("send", sent_bytes, now, 0, 0, SendFlags(Self, sent_bytes, now))
        /\ UNCHANGED clock

\* A caller passing any byte count and any instant.
Send ==
    \E sent_bytes \in ByteCounts, now \in Times :
        /\ SendCall(sent_bytes, now)
        /\ UNCHANGED <<latest, sent>>

Reset ==
    /\ Store(reset(Self, clock))
    /\ last' = Call("reset", 0, clock, 0, 0, NoFlags)
    /\ UNCHANGED <<clock, latest, sent>>

Update ==
    \E c \in Capacities, r \in Rates :
        /\ Store(update(Self, c, r, clock))
        /\ last' = Call("update", 0, clock, c, r, NoFlags)
        /\ UNCHANGED <<clock, latest, sent>>

Next == Tick \/ Send \/ Reset \/ Update

Spec == Init /\ [][Next]_vars

\* A caller whose `now` values never go back, starting at the creation time.
MonoSend ==
    \E sent_bytes \in ByteCounts, now \in Times :
        /\ now >= latest
        /\ SendCall(sent_bytes, now)
        /\ latest' = now
        /\ UNCHANGED sent

NextMono == Tick \/ MonoSend \/ Reset \/ Update

SpecMono == Init /\ [][NextMono]_vars

\* A caller filling one burst of a pacer that has received no send yet: sends
\* of positive byte counts, all at one instant T at or after the creation
\* time, as long as their total stays within the capacity.
InitBurst == Init /\ capacity > 0 /\ rate > 0

BurstSend ==
    \E sent_bytes \in 1..MaxBytes, now \in Times :
        /\ IF last.op = "new" THEN now >= last.now ELSE now = latest
        /\ sent[now] + sent_bytes <= capacity
        /\ SendCall(sent_bytes, now)
        /\ latest' = now
        /\ sent' = [sent EXCEPT ![now] = @ + sent_bytes]

NextBurst == Tick \/ BurstSend

SpecBurst == InitBurst /\ [][NextBurst]_vars

\* capacity/rate is a whole number of nanoseconds, at least one.
WholeInterval(c, r) ==
    LET g == GCD(NANOS_PER_SEC, r)
    IN  /\ (c * (NANOS_PER_SEC \div g)) % (r \div g) = 0
        /\ from_secs_f64(c, r) >= 1

\* A caller that obeys the pacer: capacity and rate are fixed and positive,
\* nothing but send is called, and every send(b, now) has 0 < b <= capacity
\* and a now that is the clock reading at the call (so never ahead of the
\* clock, never earlier than the now of the send before, and equal to what a
\* stale reset reads), issued only if not earlier than next_time as read
\* before the call.  The configurations are those whose capacity/rate is a
\* whole number of nanoseconds, so that the rounding of the interval plays no
\* part.
InitPaced == Init /\ capacity > 0 /\ rate > 0 /\ WholeInterval(capacity, rate)

PacedTick ==
    /\ clock < PacedHorizon
    /\ clock' = clock + 1
    /\ UNCHANGED <<capacity, used, rate, last_update, next_time, last, latest, sent>>

PacedSend ==
    \E sent_bytes \in 1..MaxBytes, now \in PacedTimes :
        /\ sent_bytes <= capacity
        /\ now >= next_time
        /\ now >= latest
        /\ now = clock
        /\ SendCall(sent_bytes, now)
        /\ latest' = now
        /\ sent' = [sent EXCEPT ![now] = @ + sent_bytes]

NextPaced == PacedTick \/ PacedSend

SpecPaced == InitPaced /\ [][NextPaced]_vars

\* A caller that configures positive capacities only and never sends more
\* bytes in one call than the capacity configured at that moment.
InitWithin == Init /\ capacity > 0

WithinSend ==
    \E sent_bytes \in ByteCounts, now \in Times :
        /\ sent_bytes <= capacity
        /\ SendCall(sent_bytes, now)
        /\ UNCHANGED <<latest, sent>>

WithinUpdate == Update /\ capacity' > 0

NextWithin == Tick \/ WithinSend \/ Reset \/ WithinUpdate

SpecWithin == InitWithin /\ [][NextWithin]_vars

----------------------------------------------------------------------------
(* The used counter at its machine width.  A usize (64 bits) is a tuple of *)
(* four 16-bit limbs, least significant first.                             *)

MaxWideSends == 3

LIMB == 65536

\* A small number as a usize.
W(n) == <<n % LIMB, (n \div LIMB) % LIMB, 0, 0>>

USIZE_MAX == <<LIMB - 1, LIMB - 1, LIMB - 1, LIMB - 1>>

\* 2^63
USIZE_HALF == <<0, 0, 0, LIMB \div 2>>

\* usize::overflowing_add: the wrapped sum and whether it overflowed.
overflowing_add(a, b) ==
    LET s1 == a[1] + b[1]
        s2 == a[2] + b[2] + (s1 \div LIMB)
        s3 == a[3] + b[3] + (s2 \div LIMB)
        s4 == a[4] + b[4] + (s3 \div LIMB)
    IN  [value    |-> <<s1 % LIMB, s2 % LIMB, s3 % LIMB, s4 % LIMB>>,
         overflow |-> s4 >= LIMB]

\* a >= b on usize
WGe(a, b) ==
    \/ a[4] > b[4]
    \/ a[4] = b[4] /\ a[3] > b[3]
    \/ a[4] = b[4] /\ a[3] = b[3] /\ a[2] > b[2]
    \/ a[4] = b[4] /\ a[3] = b[3] /\ a[2] = b[2] /\ a[1] >= b[1]

\* a - b on usize, for a >= b
WSub(a, b) ==
    LET d1 == a[1] - b[1]
        d2 == a[2] - b[2] - (IF d1 < 0 THEN 1 ELSE 0)
        d3 == a[3] - b[3] - (IF d2 < 0 THEN 1 ELSE 0)
        d4 == a[4] - b[4] - (IF d3 < 0 THEN 1 ELSE 0)
    IN  <<(d1 + LIMB) % LIMB, (d2 + LIMB) % LIMB,
          (d3 + LIMB) % LIMB, (d4 + LIMB) % LIMB>>

WideByteCounts == {W(0), W(1), USIZE_HALF, USIZE_MAX}

\* reset on a pacer whose used is a usize.
reset_wide(p, clk) == [reset(p, clk) EXCEPT !.used = W(@)]

\* Pacer::send with used and sent_bytes at their width.  `checked` says whether
\* the build has overflow checks: with them "self.used += sent_bytes" panics
\* on overflow, without them it wraps.
send_wide(p, sent_bytes, now, clk, checked) ==
    IF p.rate = 0 \/ sent_bytes = W(0)
    THEN [pacer |-> send_degenerate(p, now), overflow |-> FALSE, panicked |-> FALSE]
    ELSE
    LET interval == from_secs_f64(p.capacity, p.rate)
        elapsed  == saturating_duration_since(now, p.last_update)
        p1 == IF TooOld(elapsed, interval) THEN reset_wide(p, clk) ELSE p
        add == overflowing_add(p1.used, sent_bytes)
        p2 == [p1 EXCEPT !.used = add.value]
        full == WGe(p2.used, W(p2.capacity))
        p3 == IF full
              THEN [p2 EXCEPT !.used = WSub(@, W(p2.capacity)), !.last_update = now]
              ELSE p2
        next == IF full THEN interval ELSE 0
    IN  IF add.overflow /\ checked
        THEN [pacer |-> p1, overflow |-> TRUE, panicked |-> TRUE]
        ELSE [pacer |-> [p3 EXCEPT !.next_time =
                                final_next_time(p3.last_update, next, now)],
              overflow |-> add.overflow, panicked |-> FALSE]

\* Pacer::new in a build with or without overflow checks.
InitWide ==
    \E c \in Capacities, r \in Rates, t1 \in 0..1, t2 \in 0..1, checked \in BOOLEAN :
        /\ t1 <= t2
        /\ capacity = c
        /\ used = W(0)
        /\ rate = r
        /\ last_update = t1
        /\ next_time = t2
        /\ clock = t2
        /\ last = [op |-> "new", sent_bytes |-> W(0), now |-> t2,
                   overflow |-> FALSE, checked |-> checked, seq |-> 0]
        /\ latest = t2
        /\ sent = NoSent

\* After a panic the pacer receives no further call.
WideTick == last.op # "panic" /\ Tick

WideSend ==
    \E sent_bytes \in WideByteCounts, now \in Times :
        LET out == send_wide(Self, sent_bytes, now, clock, last.checked)
        IN  /\ last.op # "panic"
            /\ last.seq < MaxWideSends
            /\ Store(out.pacer)
            /\ last' = [last EXCEPT !.op = IF out.panicked THEN "panic" ELSE "send",
                                    !.sent_bytes = sent_bytes,
                                    !.now = now,
                                    !.overflow = out.overflow,
                                    !.seq = @ + 1]
            /\ UNCHANGED <<clock, latest, sent>>

WideReset ==
    /\ last.op # "panic"
    /\ Store(reset_wide(Self, clock))
    /\ last' = [last EXCEPT !.op = "reset", !.sent_bytes = W(0), !.now = clock,
                            !.overflow = FALSE]
    /\ UNCHANGED <<clock, latest, sent>>

WideUpdate ==
    \E c \in Capacities, r \in Rates :
        /\ last.op # "panic"
        /\ Store(reset_wide([Self EXCEPT !.capacity = c, !.rate = r], clock))
        /\ last' = [last EXCEPT !.op = "update", !.sent_bytes = W(0),
                                !.now = clock, !.overflow = FALSE]
        /\ UNCHANGED <<clock, latest, sent>>

NextWide == WideTick \/ WideSend \/ WideReset \/ WideUpdate

SpecWide == InitWide /\ [][NextWide]_vars

----------------------------------------------------------------------------
(* Steps and states the properties speak of.                               *)

\* The step is a call of `op` (its arguments are in last').
Called(op) == last'.seq # last.seq /\ last'.op = op

----------------------------------------------------------------------------
(* C1.  next_time() across calls whose now arguments never go back.        *)

\* C1 as claimed: in a run whose sends carry non-decreasing now values (every
\* behaviour of SpecMono is one), next_time never decreases from one call to
\* the next.
C1_NextTimeNeverDecreases == [][next_time' >= next_time]_vars

\* C1 amended: in such a run next_time does not decrease across a reset, an
\* update, or a send whose now is not earlier than next_time before the call.
C1_NextTimeKeptByTimelyCalls ==
    [][(Called("send") => last'.now >= next_time) => next_time' >= next_time]_vars

\* A timely send has rolled the bucket over and pushed next_time past its now.
C1_Witness ==
    /\ last.op = "send" /\ last.timely /\ last.rolled
    /\ next_time > last.now

----------------------------------------------------------------------------
(* C2.  send never leaves next_time() before its own now.                  *)

\* C2: after every send(sent_bytes, now), whatever the capacity, the rate,
\* sent_bytes (0 included) and now (one earlier than last_update included),
\* next_time is not earlier than that now.
C2_NextTimeNotBeforeNow == last.op = "send" => next_time >= last.now

\* A send of 0 bytes whose now was earlier than last_update has been made.
C2_Witness ==
    /\ last.op = "send" /\ last.sent_bytes = 0
    /\ last.now < last_update /\ next_time = last_update

----------------------------------------------------------------------------
(* C3.  The burst boundary of a fresh pacer.                               *)

\* C3 as claimed: on a pacer with capacity > 0 and rate > 0 that has received
\* no send yet, once sends of positive byte counts, all with the same now = T
\* at or after the creation time, have summed to exactly the capacity,
\* next_time is T + capacity/rate (the Duration the code computes for it).
C3_ExactBurstBoundary ==
    (last.op = "send" /\ sent[latest] = capacity)
        => next_time = latest + from_secs_f64(capacity, rate)

----------------------------------------------------------------------------
(* C4.  A send that leaves the bucket below capacity asks for no wait.     *)

\* C4 as claimed: for rate > 0 and sent_bytes > 0, a send that does not roll
\* the bucket over leaves next_time not later than its own now.
C4_NoWaitBelowCapacity ==
    (last.op = "send" /\ rate > 0 /\ last.sent_bytes > 0 /\ ~last.rolled)
        => next_time <= last.now

----------------------------------------------------------------------------
(* C5.  A send after an idle gap behaves as on a fresh pacer.              *)

\* What a pacer created at t with (c, r) holds after send(b, t) as first call.
FreshSend(c, r, b, t) == send(new(c, r, t, t), b, t, t)

\* C5 as claimed: with capacity > 0 and rate > 0, if send(b2, t2) with b2 > 0
\* directly follows a send at t1 and t2 - t1 > capacity/rate, then used and
\* next_time after it are those of a pacer created at t2 after send(b2, t2).
C5_IdleGapActsAsFresh ==
    [][(/\ last.op = "send" /\ Called("send")
        /\ capacity > 0 /\ rate > 0 /\ last'.sent_bytes > 0
        /\ last'.now - last.now > from_secs_f64(capacity, rate))
       => (/\ used' = FreshSend(capacity, rate, last'.sent_bytes, last'.now).used
           /\ next_time' =
                FreshSend(capacity, rate, last'.sent_bytes, last'.now).next_time)]_vars

----------------------------------------------------------------------------
(* C6.  The rate of a caller that obeys the pacer.                         *)

RECURSIVE SentBetween(_, _)
\* The bytes reported by sends with t1 <= now <= t2.
SentBetween(t1, t2) ==
    IF t1 > t2 THEN 0 ELSE sent[t1] + SentBetween(t1 + 1, t2)

\* C6 as claimed: for a caller that obeys the pacer, the bytes reported by
\* sends with t1 <= now <= t2 are at most 2*capacity + rate*(t2 - t1), for
\* every t1 <= t2.  With t2 - t1 in nanoseconds and rate in bytes per second
\* both sides are multiplied by NANOS_PER_SEC/g, g = gcd(NANOS_PER_SEC, rate).
C6_PacedRateBound ==
    LET g == GCD(NANOS_PER_SEC, rate)
        num == NANOS_PER_SEC \div g
        den == rate \div g
    IN  \A t1 \in PacedTimes, t2 \in PacedTimes :
            t1 <= t2 =>
                SentBetween(t1, t2) * num <= 2 * capacity * num + den * (t2 - t1)

----------------------------------------------------------------------------
(* C7.  The fast path of send.                                             *)

\* C7: a send(sent_bytes, now) with rate = 0 or sent_bytes = 0 leaves used,
\* capacity and rate as they were, and sets next_time and last_update both to
\* the later of last_update before the call and now.
C7_DegenerateSend ==
    [][(Called("send") /\ (rate = 0 \/ last'.sent_bytes = 0))
       => (/\ used' = used /\ capacity' = capacity /\ rate' = rate
           /\ next_time' = Max(last_update, last'.now)
           /\ last_update' = next_time')]_vars

\* A send of 0 bytes on a pacing pacer with bytes in its bucket, at a now later
\* than the start of the window, has moved last_update and next_time to now.
C7_Witness ==
    /\ last.op = "send" /\ last.sent_bytes = 0 /\ rate > 0
    /\ last.prev_op = "send" /\ used > 0
    /\ last.now > 1 /\ last_update = last.now /\ next_time = last.now

----------------------------------------------------------------------------
(* C8.  A send inside the wait that follows a rollover.                    *)

\* C8: with capacity > 0 and rate > 0, after a send at T that rolled over, a
\* directly following send(b, T2) with T < T2 <= T + capacity/rate, b > 0 and
\* used + b < capacity sets next_time to T2.
C8_NewWindowAfterRollover ==
    [][(/\ last.op = "send" /\ last.rolled /\ Called("send")
        /\ capacity > 0 /\ rate > 0
        /\ last.now < last'.now
        /\ last'.now <= last.now + from_secs_f64(capacity, rate)
        /\ last'.sent_bytes > 0 /\ used + last'.sent_bytes < capacity)
       => next_time' = last'.now]_vars

\* Such a send has been made: it follows a send that rolled over at
\* T = last_update, its now lies in (T, T + capacity/rate], and it neither
\* reset nor rolled over.
C8_Witness ==
    /\ last.op = "send" /\ last.prev_op = "send" /\ last.prev_rolled
    /\ last.sent_bytes > 0 /\ rate > 0 /\ capacity > 0
    /\ ~last.stale /\ ~last.rolled
    /\ last_update < last.now
    /\ last.now <= last_update + from_secs_f64(capacity, rate)
    /\ next_time = last.now

----------------------------------------------------------------------------
(* C9.  update replaces the configuration and starts a fresh window.       *)

\* C9: update(capacity, rate) stores the given capacity and rate, leaves
\* used = 0 and does not decrease next_time; the first send(b, now) after it
\* with rate > 0 and 0 < b < capacity leaves used = b.
C9_UpdateStartsFreshWindow ==
    [][/\ Called("update")
          => (/\ capacity' = last'.capacity /\ rate' = last'.rate
              /\ used' = 0 /\ next_time' >= next_time)
       /\ (/\ last.op = "update" /\ Called("send")
           /\ rate > 0 /\ 0 < last'.sent_bytes /\ last'.sent_bytes < capacity)
          => used' = last'.sent_bytes]_vars

\* A first send below the new capacity has followed an update.
C9_Witness ==
    /\ last.op = "send" /\ last.prev_op = "update"
    /\ rate > 0 /\ last.sent_bytes > 0 /\ last.sent_bytes < capacity
    /\ used = last.sent_bytes

----------------------------------------------------------------------------
(* C10.  reset.                                                            *)

\* C10: reset() sets used to 0 and last_update to the clock reading, sets
\* next_time to the later of its previous value and the clock reading, and
\* leaves capacity and rate unchanged.
C10_Reset ==
    [][Called("reset")
       => (/\ used' = 0 /\ last_update' = clock
           /\ next_time' = Max(next_time, clock)
           /\ next_time' >= next_time /\ next_time' >= clock
           /\ capacity' = capacity /\ rate' = rate)]_vars

\* A reset has emptied a bucket that a send had been filling, and kept a
\* next_time that lies beyond the clock reading.
C10_Witness ==
    /\ last.op = "reset" /\ last.prev_op = "send"
    /\ used = 0 /\ last_update = last.now /\ next_time > last_update
    /\ capacity > 0 /\ rate > 0

----------------------------------------------------------------------------
(* C11.  A capacity of 0 disables pacing.                                  *)

\* C11: with capacity = 0 and rate > 0, every send(sent_bytes, now) with
\* sent_bytes > 0 leaves next_time equal to that call's now.
C11_ZeroCapacityNeverWaits ==
    (last.op = "send" /\ capacity = 0 /\ rate > 0 /\ last.sent_bytes > 0)
        => next_time = last.now

\* Such a send has been made with a now earlier than the clock reading a reset
\* had left in last_update and in next_time (the call before was a reset or an
\* update, at a clock reading later than this now).
C11_Witness ==
    /\ last.op = "send" /\ capacity = 0 /\ rate > 0 /\ last.sent_bytes > 0
    /\ last.prev_op \in {"reset", "update"}
    /\ last.now < clock /\ clock = 1
    /\ next_time = last.now /\ last_update = last.now

----------------------------------------------------------------------------
(* C12.  used after a rollover.                                            *)

\* C12 as stated: after every send in which a rollover occurs, used is strictly
\* below capacity.
C12_RolloverLeavesUsedBelowCapacity ==
    (last.op = "send" /\ last.rolled) => used < capacity

\* C12 as the code has it: a rollover subtracts capacity once, so used ends
\* below capacity exactly when the bucket held less than two capacities, u0
\* being used before the call, or 0 after the stale reset; in particular when
\* u0 < capacity and sent_bytes <= capacity.
C12_RolloverSubtractsOnce ==
    [][(Called("send") /\ last'.rolled) =>
          LET u0 == IF last'.stale THEN 0 ELSE used
          IN  /\ (used' < capacity') <=> (u0 + last'.sent_bytes < 2 * capacity)
              /\ (capacity > 0 /\ u0 < capacity /\ last'.sent_bytes <= capacity)
                    => used' < capacity'
    ]_vars

\* A rollover has carried a remainder that is below capacity.
C12_Witness ==
    /\ last.op = "send" /\ last.rolled /\ ~last.stale
    /\ last.sent_bytes <= capacity
    /\ 0 < used /\ used < capacity

----------------------------------------------------------------------------
(* C13.  The accounting of a paced send.                                   *)

\* C13: for rate > 0 and sent_bytes > 0, with u0 the value of used before the
\* call, or 0 if the call triggered the stale reset: if u0 + sent_bytes >=
\* capacity then afterwards used = u0 + sent_bytes - capacity (one subtraction,
\* remainder carried), last_update = now and next_time = now + capacity/rate;
\* otherwise used = u0 + sent_bytes.
C13_PacedSendAccounting ==
    [][(Called("send") /\ rate > 0 /\ last'.sent_bytes > 0) =>
          LET b   == last'.sent_bytes
              now == last'.now
              u0  == IF last'.stale THEN 0 ELSE used
          IN  IF u0 + b >= capacity
              THEN /\ used' = u0 + b - capacity
                   /\ last_update' = now
                   /\ next_time' = now + from_secs_f64(capacity, rate)
              ELSE used' = u0 + b
    ]_vars

\* A send has filled the bucket beyond capacity without a stale reset: the
\* remainder is carried and the next send is due one interval after now.
C13_Witness ==
    /\ last.op = "send" /\ rate > 0 /\ last.sent_bytes > 0
    /\ last.rolled /\ ~last.stale
    /\ capacity > 1
    /\ 0 < used /\ used < last.sent_bytes
    /\ last_update = last.now
    /\ next_time = last.now + from_secs_f64(capacity, rate)

----------------------------------------------------------------------------
(* C14.  The staleness threshold.                                          *)

\* C14: in a send with rate > 0 and sent_bytes > 0 the reset is performed if and
\* only if now - last_update is strictly greater than the interval
\* capacity/rate, last_update being the start of the current window and not the
\* time of the previous send.  The reset shows in the state: used restarts from
\* 0 before sent_bytes is added, and without a rollover last_update becomes the
\* clock reading.  At now - last_update = interval, and below, used is kept,
\* sent_bytes is added to it, and without a rollover last_update stays.
C14_ResetIffStrictlyOlder ==
    [][(Called("send") /\ rate > 0 /\ last'.sent_bytes > 0) =>
          LET b     == last'.sent_bytes
              older == last'.now - last_update > from_secs_f64(capacity, rate)
              u0    == IF older THEN 0 ELSE used
          IN  /\ used' = IF u0 + b >= capacity THEN u0 + b - capacity ELSE u0 + b
              /\ u0 + b < capacity =>
                    last_update' = IF older THEN clock ELSE last_update
    ]_vars

\* A send arrived exactly one interval (at least 1 ns) after the window start,
\* the send before it having been made in the same window without rolling it
\* over: used was kept and sent_bytes added.
C14_Witness ==
    /\ last.op = "send" /\ rate > 0 /\ last.sent_bytes > 0
    /\ last.prev_op = "send" /\ ~last.prev_rolled
    /\ ~last.rolled
    /\ from_secs_f64(capacity, rate) >= 1
    /\ last.now - last_update = from_secs_f64(capacity, rate)
    /\ used > last.sent_bytes

----------------------------------------------------------------------------
(* C15.  A now earlier than last_update.                                   *)

\* C15: a send(sent_bytes, now) with now earlier than last_update (rate > 0,
\* sent_bytes > 0) is accepted: elapsed is zero, the stale reset is not
\* triggered (last_update moves only through a rollover, to now), used is kept
\* and sent_bytes is added to it, less capacity if the sum rolls over.
C15_EarlierNowIsNotStale ==
    [][(Called("send") /\ rate > 0 /\ last'.sent_bytes > 0
            /\ last'.now < last_update) =>
          LET b == last'.sent_bytes
          IN  /\ saturating_duration_since(last'.now, last_update) = 0
              /\ ~last'.stale
              /\ used' = IF used + b >= capacity THEN used + b - capacity
                                                   ELSE used + b
              /\ last_update' = IF used + b >= capacity THEN last'.now
                                                          ELSE last_update
    ]_vars

\* A send was made with a now more than one interval before last_update, into
\* a window that already held bytes: they were kept.
C15_Witness ==
    /\ last.op = "send" /\ rate > 0 /\ last.sent_bytes > 0
    /\ ~last.stale /\ ~last.rolled
    /\ last_update - last.now > from_secs_f64(capacity, rate)
    /\ used > last.sent_bytes

----------------------------------------------------------------------------
(* C16.  last_update and next_time.                                        *)

\* C16: in every reachable state (after new and after any sequence of send,
\* reset and update calls with arbitrary arguments, the clock never running
\* backwards) last_update is not later than next_time.
C16_LastUpdateNotAfterNextTime == last_update <= next_time

\* After a reset at a clock reading later than creation, a send with an earlier
\* now rolled the bucket over: the window starts at that now and the next send
\* is due after it.
C16_Witness ==
    /\ last.op = "send" /\ last.rolled /\ last.prev_op = "reset"
    /\ clock > 1 /\ last.now < clock
    /\ last_update = last.now
    /\ last_update < next_time

----------------------------------------------------------------------------
(* C17.  The within-burst range.                                           *)

\* C17: if every capacity configured by new or update is greater than 0 and
\* every send carries sent_bytes no larger than the capacity configured at that
\* moment, then used < capacity after new and after every send, reset and
\* update.
C17_UsedBelowCapacity == used < capacity

\* The largest permitted send into a bucket one byte short of full: the
\* rollover leaves the bucket one byte short of full again.
C17_Witness ==
    /\ last.op = "send" /\ last.rolled /\ ~last.stale
    /\ capacity > 1
    /\ last.sent_bytes = capacity
    /\ used = capacity - 1

----------------------------------------------------------------------------
(* C18.  The width of the used counter.                                    *)

\* C18: every send completes normally for all inputs: over any sequence of
\* sends with capacity, rate and sent_bytes values of the machine word width,
\* the addition used + sent_bytes never exceeds the range of the unsigned
\* word, and no send panics.
C18_UsedNeverOverflows == last.op # "panic" /\ ~last.overflow

=============================================================================
